---- MODULE Spec2Model ----
(***************************************************************************)
(* Hand-off of a conversation from the bot to a human agent: the request   *)
(* handlers of modules/hitlnext/src/backend/api.ts, cut at their await     *)
(* points, over the handoff store, the agent presence flags, the session   *)
(* timer table, the active-handoff cache, the realtime fanout and the      *)
(* event-delivery collaborator.  The presence handlers, the session timer  *)
(* and the comment handler of modules/hitl2/src/backend/api.ts run over    *)
(* the same state in SpecPresence.  MiddlewareChain.run of                 *)
(* bp/core/services/middleware/middleware.ts, the handler chain behind     *)
(* event delivery, is the state machine of SpecChain.                      *)
(***************************************************************************)
EXTENDS Integers, Sequences, FiniteSets, TLC

\* ------------------------------------------------------------------ bounds
MaxRequests == 4      \* requests served in one run
Slots == {1, 2}       \* request handlers that can be in flight together
MaxStack == 3         \* handlers registered on the middleware chain

\* ------------------------------------------------------------------ inputs
Bots == {"botA"}
Tenants == Bots \cup {"botB"}
Users == {"u1"}
UserThreads == {1}
Channels == {"web", "api"}
Agents == {"ag1", "ag2"}
NumUserThreads == Cardinality(UserThreads)

VARIABLES
  reqs,         \* slot -> the request handler running in it, with its locals
  handoffs,     \* the store's handoffs table, indexed by the serial id
  agentOnline,  \* the store's online flag of <<botId, agentId>>
  timeouts,     \* state.timeouts: agentId -> the session timer registered last
  cache,        \* active-handoff cache: <<botId, threadId>> -> handoff record
  fanout,       \* realtime.sendPayload calls, in order
  events,       \* bp.events.replyToEvent / sendEvent deliveries, in order
  convos,       \* conversations opened by POST /mod/channel-web/conversations/:agent/new
  clock,        \* the wall clock read by new Date()
  nreq,         \* requests started so far
  lost,         \* timers still pending whose handle state.timeouts no longer holds
  callbacks,    \* expiry callbacks that have started and wait for their status re-read
  comments,     \* the store's comments table
  chain         \* one MiddlewareChain and its run over one event

vars == <<reqs, handoffs, agentOnline, timeouts, cache, fanout, events, convos, clock, nreq,
          lost, callbacks, comments, chain>>

\* ------------------------------------------------------------------ values
NoHandoff ==
  [id |-> 0, botId |-> "none", userId |-> "none", userThreadId |-> 0,
   userChannel |-> "none", status |-> "none", agentId |-> "none",
   agentThreadId |-> 0, createdAt |-> 0, assignedAt |-> 0, resolvedAt |-> 0]

\* status 0: no response was ever sent
NoResp == [status |-> 0, error |-> "none", handoff |-> NoHandoff]

IdleReq ==
  [op |-> "none", pc |-> "idle", bot |-> "none", user |-> "none", thread |-> 0,
   channel |-> "none", id |-> 0, agent |-> "none", handoff |-> NoHandoff,
   agentThreadId |-> 0, at |-> 0, resp |-> NoResp]

NoTimer == [armed |-> FALSE, bot |-> "none"]

\* positions of the chain's stack
Handlers == 1..MaxStack

\* a promise of the race that has not settled / the value timePromise settles with
Pending == "pending"
Undefined == "undefined"

\* new MiddlewareChain(): an empty stack, no run yet. timedOut[k] and
\* result[k] are the locals of the loop iteration over stack[k]
NewChain ==
  [stack |-> <<>>, pc |-> "idle", i |-> 0, invoked |-> <<>>,
   timedOut |-> [k \in Handlers |-> FALSE], result |-> [k \in Handlers |-> Pending],
   timers |-> {}, calledBack |-> {}, steps |-> <<>>]

Quiet(q) == q.pc \in {"idle", "done"}

Ids == 1..Len(handoffs)

\* ------------------------------------------------------- store (repository)
\* the query of create with .where('status', 'pending') for .whereNot('status', 'resolved')
CreateQueryMatches_PendingOnly(h, b, u, t, c) ==
  /\ h.botId = b
  /\ h.userId = u
  /\ h.userThreadId = t
  /\ h.userChannel = c
  /\ h.status = "pending"

\* handoffsQuery of create: the where / andWhere / whereNot chain
CreateQueryMatches(h, b, u, t, c) ==
  /\ h.botId = b
  /\ h.userId = u
  /\ h.userThreadId = t
  /\ h.userChannel = c
  /\ h.status # "resolved"

\* .orderBy('createdAt').limit(1) then _.head(data)
CreateQueryHead(b, u, t, c) ==
  LET m == {i \in Ids : CreateQueryMatches(handoffs[i], b, u, t, c)}
  IN IF m = {} THEN NoHandoff
     ELSE handoffs[CHOOSE i \in m : \A j \in m : handoffs[i].createdAt <= handoffs[j].createdAt]

\* repository.createHandoff(botId, payload): insert, returns the stored row
NewHandoff(b, u, t, c, now) ==
  [id |-> Len(handoffs) + 1, botId |-> b, userId |-> u, userThreadId |-> t,
   userChannel |-> c, status |-> "pending", agentId |-> "none",
   agentThreadId |-> 0, createdAt |-> now, assignedAt |-> 0, resolvedAt |-> 0]

\* repository.getHandoffWithComments(botId, id)
StoredHandoff(b, i) ==
  IF i \in Ids /\ handoffs[i].botId = b THEN handoffs[i] ELSE NoHandoff

\* ------------------------------------------------------------------- cache
\* state.cacheHandoff(botId, threadId, handoff)
CachePut(c, b, t, h) ==
  [k \in DOMAIN c \cup {<<b, t>>} |-> IF k = <<b, t>> THEN h ELSE c[k]]

\* state.expireHandoff(botId, threadId)
CacheDel(c, b, t) == [k \in DOMAIN c \ {<<b, t>>} |-> c[k]]

CacheHit(b, t) == <<b, t>> \in DOMAIN cache

\* ----------------------------------------------------------------- fanout
\* the envelope sent without its payload
FanoutEvent_NoPayload(b, res, ty, h, a, on) ==
  [bot |-> b, resource |-> res, type |-> ty, handoff |-> NoHandoff, agent |-> a, online |-> on]

\* realtime.sendPayload(botId, { resource, type, id, payload })
FanoutEvent(b, res, ty, h, a, on) ==
  [bot |-> b, resource |-> res, type |-> ty, handoff |-> h, agent |-> a, online |-> on]

\* ------------------------------------------------------------------- Init
Init ==
  /\ reqs = [r \in Slots |-> IdleReq]
  /\ handoffs = <<>>
  /\ agentOnline = [k \in Tenants \X Agents |-> FALSE]
  /\ timeouts = [a \in Agents |-> NoTimer]
  /\ cache = [k \in {} |-> NoHandoff]
  /\ fanout = <<>>
  /\ events = <<>>
  /\ convos = 0
  /\ clock = 0
  /\ nreq = 0
  /\ lost = <<>>
  /\ callbacks = <<>>
  /\ comments = <<>>
  /\ chain = NewChain

\* a request enters the first free slot
Begin(r, q) ==
  /\ Quiet(reqs[r])
  /\ \A o \in Slots : o < r => ~Quiet(reqs[o])
  /\ nreq < MaxRequests
  /\ nreq' = nreq + 1
  /\ reqs' = [reqs EXCEPT ![r] = q]

Step(r, q) == reqs' = [reqs EXCEPT ![r] = q]

Done(q, resp) == [q EXCEPT !.pc = "done", !.resp = resp]

\* ------------------------------------------------ POST /agents/me/online
OnlineStart(r) ==
  \E b \in Bots, a \in Agents :
    /\ Begin(r, [IdleReq EXCEPT !.op = "online", !.pc = "o_set", !.bot = b, !.agent = a])
    /\ UNCHANGED <<handoffs, agentOnline, timeouts, cache, fanout, events, convos, clock, lost, callbacks, comments, chain>>

\* repository.setAgentOnline(botId, agentId, value)
SetAgentOnline(b, a, v) == [agentOnline EXCEPT ![<<b, a>>] = v]

\* registerTimeout: unregisterTimeout(agentId), then state.timeouts[agentId] = setTimeout(...)
RegisterTimeout(b, a) == [timeouts EXCEPT ![a] = [armed |-> TRUE, bot |-> b]]

OnlineSet(r) ==
  LET q == reqs[r] IN
  /\ q.pc = "o_set"
  /\ agentOnline' = SetAgentOnline(q.bot, q.agent, TRUE)
  /\ Step(r, [q EXCEPT !.pc = "o_timer"])
  /\ UNCHANGED <<handoffs, timeouts, cache, fanout, events, convos, clock, nreq, lost, callbacks, comments, chain>>

OnlineTimer(r) ==
  LET q == reqs[r] IN
  /\ q.pc = "o_timer"
  /\ timeouts' = RegisterTimeout(q.bot, q.agent)
  /\ fanout' = Append(fanout, FanoutEvent(q.bot, "agent", "update", NoHandoff, q.agent, TRUE))
  /\ Step(r, Done(q, [NoResp EXCEPT !.status = 200]))
  /\ UNCHANGED <<handoffs, agentOnline, cache, events, convos, clock, nreq, lost, callbacks, comments, chain>>

\* ------------------------------------------------------- POST /handoffs
\* Joi.attempt(payload, CreateHandoffSchema) throws inside the handler; the
\* catch of errorMiddleware rethrows a Joi.ValidationError instead of calling
\* next, so no response is sent.
CreateStart(r) ==
  \E b \in Bots, u \in Users, t \in UserThreads, c \in Channels, valid \in BOOLEAN :
    LET q == [IdleReq EXCEPT !.op = "create", !.bot = b, !.user = u,
                             !.thread = t, !.channel = c]
    IN /\ Begin(r, IF valid THEN [q EXCEPT !.pc = "c_query"] ELSE Done(q, NoResp))
       /\ UNCHANGED <<handoffs, agentOnline, timeouts, cache, fanout, events, convos, clock, lost, callbacks, comments, chain>>

\* create without its early return
CreateDuplicateFound_Never(found) == FALSE

\* if (handoff) { return res.sendStatus(200) }
CreateDuplicateFound(found) == found # NoHandoff

\* the duplicate answered as a conflict
DuplicateResponse_Conflict == [NoResp EXCEPT !.status = 409, !.error = "Conflict"]

\* res.sendStatus(200): the status with its text as the body, no record
DuplicateResponse == [NoResp EXCEPT !.status = 200]

CreateQuery(r) ==
  LET q == reqs[r]
      found == CreateQueryHead(q.bot, q.user, q.thread, q.channel)
  IN /\ q.pc = "c_query"
     /\ IF CreateDuplicateFound(found)
        THEN Step(r, Done([q EXCEPT !.handoff = found], DuplicateResponse))
        ELSE Step(r, [q EXCEPT !.pc = "c_insert", !.handoff = found])
     /\ UNCHANGED <<handoffs, agentOnline, timeouts, cache, fanout, events, convos, clock, nreq, lost, callbacks, comments, chain>>

CreateInsert(r) ==
  LET q == reqs[r]
      h == NewHandoff(q.bot, q.user, q.thread, q.channel, clock + 1)
  IN /\ q.pc = "c_insert"
     /\ clock' = clock + 1
     /\ handoffs' = Append(handoffs, h)
     /\ Step(r, [q EXCEPT !.pc = "c_cache", !.handoff = h])
     /\ UNCHANGED <<agentOnline, timeouts, cache, fanout, events, convos, nreq, lost, callbacks, comments, chain>>

\* the .then of createHandoff, up to the await of bp.cms.renderElement
CreateCache(r) ==
  LET q == reqs[r] IN
  /\ q.pc = "c_cache"
  /\ cache' = CachePut(cache, q.bot, q.handoff.userThreadId, q.handoff)
  /\ Step(r, [q EXCEPT !.pc = "c_reply"])
  /\ UNCHANGED <<handoffs, agentOnline, timeouts, fanout, events, convos, clock, nreq, lost, callbacks, comments, chain>>

Delivery(b, target, t, ch, kind) ==
  [bot |-> b, target |-> target, thread |-> t, channel |-> ch, kind |-> kind]

\* replyToEvent, realtime.sendPayload, res.status(201).send(handoff)
CreateReply(r) ==
  LET q == reqs[r]
      h == q.handoff
  IN /\ q.pc = "c_reply"
     /\ events' = Append(events, Delivery(q.bot, h.userId, h.userThreadId, h.userChannel, "transfer"))
     /\ fanout' = Append(fanout, FanoutEvent(q.bot, "handoff", "create", h, "none", FALSE))
     /\ Step(r, Done(q, [NoResp EXCEPT !.status = 201, !.handoff = h]))
     /\ UNCHANGED <<handoffs, agentOnline, timeouts, cache, convos, clock, nreq, lost, callbacks, comments, chain>>

\* ------------------------------------------------- status transition rule
LegalTransitions ==
  {<<"pending", "assigned">>, <<"pending", "resolved">>, <<"assigned", "resolved">>}

\* validateHandoffStatusRule(original, value): TRUE when it does not throw
ValidateHandoffStatusRule(original, value) == <<original, value>> \in LegalTransitions

Failure(code, error) == [NoResp EXCEPT !.status = code, !.error = error]

\* --------------------------------------------------- agentOnlineMiddleware
\* the middleware with a schema that accepts any value
AgentOnlineValidation_AcceptsAll(online) == TRUE

\* Joi.attempt({ online }, AgentOnlineValidation): TRUE when it does not throw
AgentOnlineValidation(online) == online

\* getAgentOnline, then Joi.attempt({ online }, AgentOnlineValidation)
AgentOnlineMiddleware(r) ==
  LET q == reqs[r] IN
  /\ q.pc = "mw"
  /\ IF AgentOnlineValidation(agentOnline[<<q.bot, q.agent>>])
     THEN Step(r, [q EXCEPT !.pc = IF q.op = "assign" THEN "a_load" ELSE "r_load"])
     ELSE Step(r, Done(q, Failure(422, "AgentOffline")))
  /\ UNCHANGED <<handoffs, agentOnline, timeouts, cache, fanout, events, convos, clock, nreq, lost, callbacks, comments, chain>>

\* --------------------------------------------- POST /handoffs/:id/assign
AssignStart(r) ==
  \E b \in Bots, i \in Ids, a \in Agents :
    /\ Begin(r, [IdleReq EXCEPT !.op = "assign", !.pc = "mw", !.bot = b, !.id = i, !.agent = a])
    /\ UNCHANGED <<handoffs, agentOnline, timeouts, cache, fanout, events, convos, clock, lost, callbacks, comments, chain>>

AssignLoad(r) ==
  LET q == reqs[r]
      h == StoredHandoff(q.bot, q.id)
  IN /\ q.pc = "a_load"
     /\ IF h = NoHandoff
        THEN Step(r, Done(q, Failure(404, "NotFound")))
        ELSE Step(r, [q EXCEPT !.pc = "a_conv", !.handoff = h])
     /\ UNCHANGED <<handoffs, agentOnline, timeouts, cache, fanout, events, convos, clock, nreq, lost, callbacks, comments, chain>>

\* assign without the status rule
AssignStatusCheck_Skipped(h) == TRUE

\* try { validateHandoffStatusRule(handoff.status, payload.status) } catch ...
AssignStatusCheck(h) == ValidateHandoffStatusRule(h.status, "assigned")

\* Axios.post(.../conversations/:agentId/new), the payload with new Date(),
\* then the status rule
AssignOpenConversation(r) ==
  LET q == reqs[r]
      thread == NumUserThreads + convos + 1
  IN /\ q.pc = "a_conv"
     /\ convos' = convos + 1
     /\ clock' = clock + 1
     /\ IF AssignStatusCheck(q.handoff)
        THEN Step(r, [q EXCEPT !.pc = "a_update", !.agentThreadId = thread, !.at = clock + 1])
        ELSE Step(r, Done([q EXCEPT !.agentThreadId = thread, !.at = clock + 1],
                          Failure(422, "IllegalTransition")))
     /\ UNCHANGED <<handoffs, agentOnline, timeouts, cache, fanout, events, nreq, lost, callbacks, comments, chain>>

\* the update of assign with agentId left out of its payload
AssignedRow_NoAgent(h, a, t, now) ==
  [h EXCEPT !.agentThreadId = t, !.assignedAt = now, !.status = "assigned"]

\* repository.updateHandoff(botId, id, payload) of assign
AssignedRow(h, a, t, now) ==
  [h EXCEPT !.agentId = a, !.agentThreadId = t, !.assignedAt = now, !.status = "assigned"]

AssignUpdate(r) ==
  LET q == reqs[r]
      h == AssignedRow(handoffs[q.id], q.agent, q.agentThreadId, q.at)
  IN /\ q.pc = "a_update"
     /\ handoffs' = [handoffs EXCEPT ![q.id] = h]
     /\ Step(r, [q EXCEPT !.pc = "a_cache", !.handoff = h])
     /\ UNCHANGED <<agentOnline, timeouts, cache, fanout, events, convos, clock, nreq, lost, callbacks, comments, chain>>

\* state.cacheHandoff(botId, agentThreadId, handoff), then extendAgentSession
AssignCache(r) ==
  LET q == reqs[r] IN
  /\ q.pc = "a_cache"
  /\ cache' = CachePut(cache, q.bot, q.agentThreadId, q.handoff)
  /\ Step(r, [q EXCEPT !.pc = "a_online"])
  /\ UNCHANGED <<handoffs, agentOnline, timeouts, fanout, events, convos, clock, nreq, lost, callbacks, comments, chain>>

AssignSetOnline(r) ==
  LET q == reqs[r] IN
  /\ q.pc = "a_online"
  /\ agentOnline' = SetAgentOnline(q.bot, q.agent, TRUE)
  /\ Step(r, [q EXCEPT !.pc = "a_timer"])
  /\ UNCHANGED <<handoffs, timeouts, cache, fanout, events, convos, clock, nreq, lost, callbacks, comments, chain>>

\* registerTimeout, the custom event to the user, then await findEvents
AssignTimer(r) ==
  LET q == reqs[r]
      h == q.handoff
  IN /\ q.pc = "a_timer"
     /\ timeouts' = RegisterTimeout(q.bot, q.agent)
     /\ events' = Append(events, Delivery(h.botId, h.userId, h.userThreadId, h.userChannel, "assigned"))
     /\ Step(r, [q EXCEPT !.pc = "a_events"])
     /\ UNCHANGED <<handoffs, agentOnline, cache, fanout, convos, clock, nreq, lost, callbacks, comments, chain>>

\* the custom event to the agent, realtime.sendPayload, res.send(handoff)
AssignNotify(r) ==
  LET q == reqs[r]
      h == q.handoff
  IN /\ q.pc = "a_events"
     /\ events' = Append(events, Delivery(h.botId, h.agentId, h.agentThreadId, "web", "assigned"))
     /\ fanout' = Append(fanout, FanoutEvent(q.bot, "handoff", "update", h, "none", FALSE))
     /\ Step(r, Done(q, [NoResp EXCEPT !.status = 200, !.handoff = h]))
     /\ UNCHANGED <<handoffs, agentOnline, timeouts, cache, convos, clock, nreq, lost, callbacks, comments, chain>>

\* -------------------------------------------- POST /handoffs/:id/resolve
ResolveStart(r) ==
  \E b \in Bots, i \in Ids, a \in Agents :
    /\ Begin(r, [IdleReq EXCEPT !.op = "resolve", !.pc = "mw", !.bot = b, !.id = i, !.agent = a])
    /\ UNCHANGED <<handoffs, agentOnline, timeouts, cache, fanout, events, convos, clock, lost, callbacks, comments, chain>>

\* resolve without the status rule
ResolveStatusCheck_Skipped(h) == TRUE

ResolveStatusCheck(h) == ValidateHandoffStatusRule(h.status, "resolved")

\* getHandoffWithComments, the payload with new Date(), then the status rule
ResolveLoad(r) ==
  LET q == reqs[r]
      h == StoredHandoff(q.bot, q.id)
  IN /\ q.pc = "r_load"
     /\ IF h = NoHandoff
        THEN /\ Step(r, Done(q, Failure(404, "NotFound")))
             /\ UNCHANGED clock
        ELSE /\ clock' = clock + 1
             /\ IF ResolveStatusCheck(h)
                THEN Step(r, [q EXCEPT !.pc = "r_update", !.handoff = h, !.at = clock + 1])
                ELSE Step(r, Done([q EXCEPT !.handoff = h, !.at = clock + 1],
                                  Failure(422, "IllegalTransition")))
     /\ UNCHANGED <<handoffs, agentOnline, timeouts, cache, fanout, events, convos, nreq, lost, callbacks, comments, chain>>

\* repository.updateHandoff(botId, id, payload) of resolve
ResolvedRow(h, now) == [h EXCEPT !.status = "resolved", !.resolvedAt = now]

ResolveUpdate(r) ==
  LET q == reqs[r]
      h == ResolvedRow(handoffs[q.id], q.at)
  IN /\ q.pc = "r_update"
     /\ handoffs' = [handoffs EXCEPT ![q.id] = h]
     /\ Step(r, [q EXCEPT !.pc = "r_expire", !.handoff = h])
     /\ UNCHANGED <<agentOnline, timeouts, cache, fanout, events, convos, clock, nreq, lost, callbacks, comments, chain>>

\* the .then of updateHandoff: state.expireHandoff(botId, handoff.userThreadId)
ResolveExpire(r) ==
  LET q == reqs[r] IN
  /\ q.pc = "r_expire"
  /\ cache' = CacheDel(cache, q.bot, q.handoff.userThreadId)
  /\ Step(r, [q EXCEPT !.pc = "r_online"])
  /\ UNCHANGED <<handoffs, agentOnline, timeouts, fanout, events, convos, clock, nreq, lost, callbacks, comments, chain>>

ResolveSetOnline(r) ==
  LET q == reqs[r] IN
  /\ q.pc = "r_online"
  /\ agentOnline' = SetAgentOnline(q.bot, q.agent, TRUE)
  /\ Step(r, [q EXCEPT !.pc = "r_timer"])
  /\ UNCHANGED <<handoffs, timeouts, cache, fanout, events, convos, clock, nreq, lost, callbacks, comments, chain>>

\* registerTimeout, realtime.sendPayload, res.send(handoff)
ResolveTimer(r) ==
  LET q == reqs[r] IN
  /\ q.pc = "r_timer"
  /\ timeouts' = RegisterTimeout(q.bot, q.agent)
  /\ fanout' = Append(fanout, FanoutEvent(q.bot, "handoff", "update", q.handoff, "none", FALSE))
  /\ Step(r, Done(q, [NoResp EXCEPT !.status = 200, !.handoff = q.handoff]))
  /\ UNCHANGED <<handoffs, agentOnline, cache, events, convos, clock, nreq, lost, callbacks, comments, chain>>

\* ------------------------------------------------------------ specification
Arrive(r) == OnlineStart(r) \/ CreateStart(r) \/ AssignStart(r) \/ ResolveStart(r)

Continue(r) ==
  \/ OnlineSet(r) \/ OnlineTimer(r)
  \/ CreateQuery(r) \/ CreateInsert(r) \/ CreateCache(r) \/ CreateReply(r)
  \/ AgentOnlineMiddleware(r)
  \/ AssignLoad(r) \/ AssignOpenConversation(r) \/ AssignUpdate(r)
  \/ AssignCache(r) \/ AssignSetOnline(r) \/ AssignTimer(r) \/ AssignNotify(r)
  \/ ResolveLoad(r) \/ ResolveUpdate(r) \/ ResolveExpire(r)
  \/ ResolveSetOnline(r) \/ ResolveTimer(r)

Next == \E r \in Slots : Arrive(r) \/ Continue(r)

Spec == Init /\ [][Next]_vars

AllQuiet == \A r \in Slots : Quiet(reqs[r])

\* one request at a time: a handler runs to its end before the next request arrives
NextSeq == \E r \in Slots : (AllQuiet /\ Arrive(r)) \/ Continue(r)

SpecSeq == Init /\ [][NextSeq]_vars

\* ------------------------------------------------------ rejected awaits
\* the awaits of the create, assign and resolve handlers, by the pc that
\* waits for them
FallibleAwaits ==
  {"c_query", "c_insert", "c_reply",
   "a_load", "a_conv", "a_update", "a_online", "a_timer", "a_events",
   "r_load", "r_update", "r_online", "r_timer"}

\* the promise the handler awaits rejects: the call has no effect, the
\* handler's promise rejects and the catch of errorMiddleware calls next(err)
DependencyFails(r) ==
  LET q == reqs[r] IN
  /\ q.op \in {"create", "assign", "resolve"}
  /\ q.pc \in FallibleAwaits
  /\ Step(r, Done(q, Failure(500, "DependencyFailure")))
  /\ UNCHANGED <<handoffs, agentOnline, timeouts, cache, fanout, events, convos, clock, nreq,
                 lost, callbacks, comments, chain>>

\* the handlers of Spec, whose awaits may reject
NextFail == \E r \in Slots : Arrive(r) \/ Continue(r) \/ DependencyFails(r)

SpecFail == Init /\ [][NextFail]_vars

\* --------------------------------------------- POST /handoffs/:id/comments
\* repository.getHandoff(id)
GetHandoff(i) == IF i \in Ids THEN handoffs[i] ELSE NoHandoff

\* repository.createComment(payload): insert, returns the stored row
NewComment(i, t, a) ==
  [id |-> Len(comments) + 1, handoffId |-> i, threadId |-> t, agentId |-> a]

CommentStart(r) ==
  \E b \in Bots, i \in 1..(Len(handoffs) + 1), a \in Agents :
    /\ Begin(r, [IdleReq EXCEPT !.op = "comment", !.pc = "m_load", !.bot = b, !.id = i, !.agent = a])
    /\ UNCHANGED <<handoffs, agentOnline, timeouts, cache, fanout, events, convos, clock,
                   lost, callbacks, comments, chain>>

\* getHandoff, then Joi.attempt(payload, CreateCommentSchema); a validation
\* error is thrown again inside the catch of errorMiddleware: no response
CommentLoad(r) ==
  LET q == reqs[r]
      h == GetHandoff(q.id)
  IN /\ q.op = "comment"
     /\ q.pc = "m_load"
     /\ IF h = NoHandoff
        THEN Step(r, Done(q, Failure(404, "NotFound")))
        ELSE \E valid \in BOOLEAN :
               IF valid
               THEN Step(r, [q EXCEPT !.pc = "m_insert", !.handoff = h])
               ELSE Step(r, Done([q EXCEPT !.handoff = h], NoResp))
     /\ UNCHANGED <<handoffs, agentOnline, timeouts, cache, fanout, events, convos, clock, nreq,
                    lost, callbacks, comments, chain>>

CommentInsert(r) ==
  LET q == reqs[r] IN
  /\ q.op = "comment"
  /\ q.pc = "m_insert"
  /\ comments' = Append(comments, NewComment(q.handoff.id, q.handoff.userThreadId, q.agent))
  /\ Step(r, [q EXCEPT !.pc = "m_online"])
  /\ UNCHANGED <<handoffs, agentOnline, timeouts, cache, fanout, events, convos, clock, nreq,
                 lost, callbacks, chain>>

\* extendAgentSession: setAgentOnline
CommentSetOnline(r) ==
  LET q == reqs[r] IN
  /\ q.op = "comment"
  /\ q.pc = "m_online"
  /\ agentOnline' = SetAgentOnline(q.bot, q.agent, TRUE)
  /\ Step(r, [q EXCEPT !.pc = "m_timer"])
  /\ UNCHANGED <<handoffs, timeouts, cache, fanout, events, convos, clock, nreq,
                 lost, callbacks, comments, chain>>

\* extendAgentSession: registerTimeout; then res.status(201), res.send(comment)
CommentTimer(r) ==
  LET q == reqs[r] IN
  /\ q.op = "comment"
  /\ q.pc = "m_timer"
  /\ timeouts' = RegisterTimeout(q.bot, q.agent)
  /\ Step(r, Done(q, [NoResp EXCEPT !.status = 201]))
  /\ UNCHANGED <<handoffs, agentOnline, cache, fanout, events, convos, clock, nreq,
                 lost, callbacks, comments, chain>>

CommentContinue(r) ==
  CommentLoad(r) \/ CommentInsert(r) \/ CommentSetOnline(r) \/ CommentTimer(r)

\* the handlers of Spec and the comment handler
NextComment == \E r \in Slots : Arrive(r) \/ CommentStart(r) \/ Continue(r) \/ CommentContinue(r)

SpecComment == Init /\ [][NextComment]_vars

\* ================================================================= hitl2
\* modules/hitl2/src/backend/api.ts: presence routes, session timer, comments

\* the agent that signs in to hitl2; state.timeouts is keyed by this id alone
Operators == {"ag1"}

\* realtime.sendPayload(payload) of hitl2: the call names no bot
Unscoped == "all"

Hitl2Payload(res, ty, h, a, on) == FanoutEvent(Unscoped, res, ty, h, a, on)

\* the realtime transport: which subscriber of bot sub is handed event e
Receives(sub, e) == e.bot \in {sub, Unscoped}

\* unregisterTimeout without its clearTimeout
UnregisterTimeout_Forgotten(a) == timeouts

\* unregisterTimeout(agentId): clearTimeout of the handle kept under agentId
UnregisterTimeout(a) ==
  IF timeouts[a].armed THEN [timeouts EXCEPT ![a].armed = FALSE] ELSE timeouts

\* clearTimeout has no effect on a callback that has started; the record
\* only notes that its handle was cleared
Cleared(a) ==
  [i \in 1..Len(callbacks) |->
     IF callbacks[i].agent = a THEN [callbacks[i] EXCEPT !.cleared = TRUE] ELSE callbacks[i]]

\* registerTimeout after its await: unregisterTimeout(agentId), then
\* state.timeouts[agentId] = setTimeout(...)
Hitl2RegisterTimeout(b, a) ==
  LET after == UnregisterTimeout(a) IN
  /\ timeouts' = [after EXCEPT ![a] = [armed |-> TRUE, bot |-> b]]
  /\ lost' = IF after[a].armed
             THEN Append(lost, [bot |-> after[a].bot, agent |-> a])
             ELSE lost
  /\ callbacks' = Cleared(a)

\* ------------------------------------------------ POST /agents/me/online
Hitl2OnlineStart(r) ==
  \E b \in Tenants, a \in Operators :
    /\ Begin(r, [IdleReq EXCEPT !.op = "online", !.pc = "h_set", !.bot = b, !.agent = a])
    /\ UNCHANGED <<handoffs, agentOnline, timeouts, cache, fanout, events, convos, clock,
                   lost, callbacks, comments, chain>>

Hitl2OnlineSet(r) ==
  LET q == reqs[r] IN
  /\ q.op = "online"
  /\ q.pc = "h_set"
  /\ agentOnline' = SetAgentOnline(q.bot, q.agent, TRUE)
  /\ Step(r, [q EXCEPT !.pc = "h_timer"])
  /\ UNCHANGED <<handoffs, timeouts, cache, fanout, events, convos, clock, nreq,
                 lost, callbacks, comments, chain>>

\* registerTimeout resumes after getModuleConfigForBot, then sendPayload and res.send
Hitl2OnlineTimer(r) ==
  LET q == reqs[r] IN
  /\ q.op = "online"
  /\ q.pc = "h_timer"
  /\ Hitl2RegisterTimeout(q.bot, q.agent)
  /\ fanout' = Append(fanout, Hitl2Payload("agent", "update", NoHandoff, q.agent, TRUE))
  /\ Step(r, Done(q, [NoResp EXCEPT !.status = 200]))
  /\ UNCHANGED <<handoffs, agentOnline, cache, events, convos, clock, nreq, comments, chain>>

\* ----------------------------------------------- POST /agents/me/offline
Hitl2OfflineStart(r) ==
  \E b \in Tenants, a \in Operators :
    /\ Begin(r, [IdleReq EXCEPT !.op = "offline", !.pc = "h_set", !.bot = b, !.agent = a])
    /\ UNCHANGED <<handoffs, agentOnline, timeouts, cache, fanout, events, convos, clock,
                   lost, callbacks, comments, chain>>

Hitl2OfflineSet(r) ==
  LET q == reqs[r] IN
  /\ q.op = "offline"
  /\ q.pc = "h_set"
  /\ agentOnline' = SetAgentOnline(q.bot, q.agent, FALSE)
  /\ Step(r, [q EXCEPT !.pc = "h_clear"])
  /\ UNCHANGED <<handoffs, timeouts, cache, fanout, events, convos, clock, nreq,
                 lost, callbacks, comments, chain>>

\* after the await: unregisterTimeout(agentId), sendPayload, res.send
Hitl2OfflineClear(r) ==
  LET q == reqs[r] IN
  /\ q.op = "offline"
  /\ q.pc = "h_clear"
  /\ timeouts' = UnregisterTimeout(q.agent)
  /\ callbacks' = Cleared(q.agent)
  /\ fanout' = Append(fanout, Hitl2Payload("agent", "update", NoHandoff, q.agent, FALSE))
  /\ Step(r, Done(q, [NoResp EXCEPT !.status = 200]))
  /\ UNCHANGED <<handoffs, agentOnline, cache, events, convos, clock, nreq, lost, comments, chain>>

\* ------------------------------------------ POST /escalations/:id/comments
CommentIds == {1}

\* Joi.attempt(payload, CreateCommentSchema) throws: errorMiddleware answers 422
Hitl2CommentStart(r) ==
  \E b \in Tenants, a \in Operators, i \in CommentIds, valid \in BOOLEAN :
    /\ Begin(r, IF valid
                THEN [IdleReq EXCEPT !.op = "comment", !.pc = "h_insert", !.bot = b,
                                     !.agent = a, !.id = i]
                ELSE Done([IdleReq EXCEPT !.op = "comment", !.bot = b, !.agent = a, !.id = i],
                          Failure(422, "Validation")))
    /\ UNCHANGED <<handoffs, agentOnline, timeouts, cache, fanout, events, convos, clock,
                   lost, callbacks, comments, chain>>

Hitl2CommentInsert(r) ==
  LET q == reqs[r] IN
  /\ q.op = "comment"
  /\ q.pc = "h_insert"
  /\ comments' = Append(comments, NewComment(q.id, 0, q.agent))
  /\ Step(r, [q EXCEPT !.pc = "h_set"])
  /\ UNCHANGED <<handoffs, agentOnline, timeouts, cache, fanout, events, convos, clock, nreq,
                 lost, callbacks, chain>>

Hitl2CommentSetOnline(r) ==
  LET q == reqs[r] IN
  /\ q.op = "comment"
  /\ q.pc = "h_set"
  /\ agentOnline' = SetAgentOnline(q.bot, q.agent, TRUE)
  /\ Step(r, [q EXCEPT !.pc = "h_timer"])
  /\ UNCHANGED <<handoffs, timeouts, cache, fanout, events, convos, clock, nreq,
                 lost, callbacks, comments, chain>>

\* registerTimeout, then res.status(201) and res.send(comment)
Hitl2CommentTimer(r) ==
  LET q == reqs[r] IN
  /\ q.op = "comment"
  /\ q.pc = "h_timer"
  /\ Hitl2RegisterTimeout(q.bot, q.agent)
  /\ Step(r, Done(q, [NoResp EXCEPT !.status = 201]))
  /\ UNCHANGED <<handoffs, agentOnline, cache, fanout, events, convos, clock, nreq, comments, chain>>

\* ------------------------------------------------------- the session timer
\* the timers that have not fired and were not cleared
PendingTimers ==
  {[from |-> "table", at |-> 0, bot |-> timeouts[a].bot, agent |-> a] :
     a \in {x \in Agents : timeouts[x].armed}}
  \cup {[from |-> "lost", at |-> i, bot |-> lost[i].bot, agent |-> lost[i].agent] :
          i \in 1..Len(lost)}

Without(s, i) == SubSeq(s, 1, i - 1) \o SubSeq(s, i + 1, Len(s))

\* the delay of setTimeout elapses: the callback starts and awaits getAgentOnline
TimerExpires ==
  \E t \in PendingTimers :
    /\ timeouts' = IF t.from = "table" THEN [timeouts EXCEPT ![t.agent].armed = FALSE]
                   ELSE timeouts
    /\ lost' = IF t.from = "lost" THEN Without(lost, t.at) ELSE lost
    /\ callbacks' = Append(callbacks, [bot |-> t.bot, agent |-> t.agent, cleared |-> FALSE])
    /\ UNCHANGED <<reqs, handoffs, agentOnline, cache, fanout, events, convos, clock, nreq,
                   comments, chain>>

\* what the expiry callback writes to the store: nothing
ExpiryWrite(b, a, online) == agentOnline

\* the callback resumes with the value read and calls realtime.sendPayload
ExpiryCallback ==
  \E i \in 1..Len(callbacks) :
    LET cb == callbacks[i]
        online == agentOnline[<<cb.bot, cb.agent>>]
    IN /\ agentOnline' = ExpiryWrite(cb.bot, cb.agent, online)
       /\ fanout' = Append(fanout, Hitl2Payload("agent", "update", NoHandoff, cb.agent, online))
       /\ callbacks' = Without(callbacks, i)
       /\ UNCHANGED <<reqs, handoffs, timeouts, cache, events, convos, clock, nreq,
                      lost, comments, chain>>

Hitl2Arrive(r) == Hitl2OnlineStart(r) \/ Hitl2OfflineStart(r) \/ Hitl2CommentStart(r)

Hitl2Continue(r) ==
  \/ Hitl2OnlineSet(r) \/ Hitl2OnlineTimer(r)
  \/ Hitl2OfflineSet(r) \/ Hitl2OfflineClear(r)
  \/ Hitl2CommentInsert(r) \/ Hitl2CommentSetOnline(r) \/ Hitl2CommentTimer(r)

NextPresence ==
  \/ \E r \in Slots : Hitl2Arrive(r) \/ Hitl2Continue(r)
  \/ TimerExpires
  \/ ExpiryCallback

SpecPresence == Init /\ [][NextPresence]_vars

\* ---------------------------------------------------- POST /escalations
\* escalationsQuery of create: botId, userId, userThreadId, not resolved
Hitl2QueryMatches(h, b, u, t) ==
  /\ h.botId = b
  /\ h.userId = u
  /\ h.userThreadId = t
  /\ h.status # "resolved"

\* .orderBy('createdAt').limit(1) then _.head(data)
Hitl2QueryHead(b, u, t) ==
  LET m == {i \in Ids : Hitl2QueryMatches(handoffs[i], b, u, t)}
  IN IF m = {} THEN NoHandoff
     ELSE handoffs[CHOOSE i \in m : \A j \in m : handoffs[i].createdAt <= handoffs[j].createdAt]

\* _.pick(req.body, ['userId', 'userThreadId']), then Joi.attempt; a
\* validation error is answered 422 by errorMiddleware
Hitl2CreateStart(r) ==
  \E b \in Tenants, u \in Users, t \in UserThreads, c \in Channels, valid \in BOOLEAN :
    LET q == [IdleReq EXCEPT !.op = "create", !.bot = b, !.user = u,
                             !.thread = t, !.channel = c]
    IN /\ Begin(r, IF valid THEN [q EXCEPT !.pc = "e_query"]
                   ELSE Done(q, Failure(422, "Validation")))
       /\ UNCHANGED <<handoffs, agentOnline, timeouts, cache, fanout, events, convos, clock,
                      lost, callbacks, comments, chain>>

\* if (escalation) { return res.sendStatus(200) }
Hitl2CreateQuery(r) ==
  LET q == reqs[r]
      found == Hitl2QueryHead(q.bot, q.user, q.thread)
  IN /\ q.pc = "e_query"
     /\ IF found # NoHandoff
        THEN Step(r, Done([q EXCEPT !.handoff = found], DuplicateResponse))
        ELSE Step(r, [q EXCEPT !.pc = "e_insert", !.handoff = found])
     /\ UNCHANGED <<handoffs, agentOnline, timeouts, cache, fanout, events, convos, clock, nreq,
                    lost, callbacks, comments, chain>>

\* repository.createEscalation(botId, payload). The row has no channel
\* column in hitl2; userChannel here keeps the channel of the conversation
\* the request came from, which no hitl2 query reads.
Hitl2CreateInsert(r) ==
  LET q == reqs[r]
      h == NewHandoff(q.bot, q.user, q.thread, q.channel, clock + 1)
  IN /\ q.pc = "e_insert"
     /\ clock' = clock + 1
     /\ handoffs' = Append(handoffs, h)
     /\ Step(r, [q EXCEPT !.pc = "e_reply", !.handoff = h])
     /\ UNCHANGED <<agentOnline, timeouts, cache, fanout, events, convos, nreq,
                    lost, callbacks, comments, chain>>

\* the .then of createEscalation (cacheEscalation), realtime.sendPayload,
\* res.status(201).send(escalation)
Hitl2CreateReply(r) ==
  LET q == reqs[r]
      h == q.handoff
  IN /\ q.pc = "e_reply"
     /\ cache' = CachePut(cache, q.bot, h.userThreadId, h)
     /\ fanout' = Append(fanout, Hitl2Payload("escalation", "create", h, "none", FALSE))
     /\ Step(r, Done(q, [NoResp EXCEPT !.status = 201, !.handoff = h]))
     /\ UNCHANGED <<handoffs, agentOnline, timeouts, events, convos, clock, nreq,
                    lost, callbacks, comments, chain>>

NextEscalation ==
  \E r \in Slots :
    Hitl2CreateStart(r) \/ Hitl2CreateQuery(r) \/ Hitl2CreateInsert(r) \/ Hitl2CreateReply(r)

SpecEscalation == Init /\ [][NextEscalation]_vars

\* ------------------------------------------------------ MiddlewareChain
\* what a handler passes to its callback if it ever calls back:
\* cb(null, true) / cb(null, false, true) / cb() / cb(err)
Outcomes == {"swallowed", "skipped", "completed", "error"}

Others ==
  <<reqs, handoffs, agentOnline, timeouts, cache, fanout, events, convos, clock, nreq,
    lost, callbacks, comments>>

\* use({ handler, name }): the handler is named by its position
Use(h) ==
  /\ chain.pc = "idle"
  /\ Len(chain.stack) < MaxStack
  /\ chain' = [chain EXCEPT !.stack = Append(@, h)]
  /\ UNCHANGED Others

\* Promise.race: the first promise to settle decides, later ones are ignored
Race(result, outcome) == IF result = Pending THEN outcome ELSE result

\* a timeout whose catch handler does not set the flag
OnTimeout_Ignored(flags, k) == flags

\* the catch handler of timePromise: timedOut = true
OnTimeout(flags, k) == [flags EXCEPT ![k] = TRUE]

\* one pass of the loop head: the next element of the stack, if any, gets
\* its timer and is called with the event; the run then waits at the race
Invoke(c, k) ==
  IF k > Len(c.stack)
  THEN [c EXCEPT !.pc = "finished"]
  ELSE [c EXCEPT !.pc = "await", !.i = k, !.timers = @ \cup {k}, !.invoked = Append(@, k)]

\* run(event)
Run ==
  /\ chain.pc = "idle"
  /\ chain' = Invoke(chain, 1)
  /\ UNCHANGED Others

\* the handler at position k calls its callback (a second call is ignored
\* by fromCallback): its mwPromise settles
CallBack(k) ==
  /\ k \in 1..Len(chain.invoked)
  /\ k \notin chain.calledBack
  /\ chain' = [chain EXCEPT !.calledBack = @ \cup {k},
                            !.result[k] = Race(@, chain.stack[k])]
  /\ UNCHANGED Others

\* the timer of the iteration over stack[k] fires: the never-resolving
\* promise times out, the catch handler runs and timePromise settles
Timeout(k) ==
  /\ k \in chain.timers
  /\ chain' = [chain EXCEPT !.timers = @ \ {k},
                            !.timedOut = OnTimeout(@, k),
                            !.result[k] = Race(@, Undefined)]
  /\ UNCHANGED Others

\* the if / else-if ladder after the await: the step added to the event
StepOf(timedOut, result) ==
  IF timedOut THEN "timedOut"
  ELSE IF result = Undefined THEN "none"
  ELSE result

\* addStepToEvent(`mw:${name}:${step}`, event)
AddStepToEvent(steps, k, step) == IF step = "none" THEN steps ELSE Append(steps, <<k, step>>)

\* the run resumes after the await of the race: a rejected mwPromise
\* rejects the run; otherwise the step is recorded and the loop breaks or
\* goes on to the next handler
Resume ==
  LET k == chain.i
      res == chain.result[k]
      st == StepOf(chain.timedOut[k], res)
      c1 == [chain EXCEPT !.steps = AddStepToEvent(@, k, st)]
  IN /\ chain.pc = "await"
     /\ res # Pending
     /\ chain' = IF res = "error" THEN [chain EXCEPT !.pc = "rejected"]
                 ELSE IF st = "swallowed" THEN [c1 EXCEPT !.pc = "finished"]
                 ELSE Invoke(c1, k + 1)
     /\ UNCHANGED Others

NextChain ==
  \/ \E h \in Outcomes : Use(h)
  \/ Run
  \/ \E k \in Handlers : CallBack(k) \/ Timeout(k)
  \/ Resume

SpecChain == Init /\ [][NextChain]_vars

\* timers fire and a settled await resumes; a handler need never call back
SpecChainFair ==
  SpecChain /\ WF_vars(\E k \in Handlers : Timeout(k)) /\ WF_vars(Resume)

\* ------------------------------------------------------------------ claims
Tuples == Bots \X Users \X UserThreads \X Channels

\* the handoffs of store hs that are not resolved, for one tuple
ActiveIn(hs, tu) ==
  {i \in 1..Len(hs) : /\ <<hs[i].botId, hs[i].userId, hs[i].userThreadId, hs[i].userChannel>> = tu
                      /\ hs[i].status \in {"pending", "assigned"}}

TupleOf(q) == <<q.bot, q.user, q.thread, q.channel>>

Moves(r) == reqs'[r] # reqs[r]

\* C1: when requests run strictly one after another, every create call that
\* ends with a response leaves exactly one non-terminal handoff in the store
\* for its (tenant, userId, userThreadId, userChannel) tuple.
C1_SequentialCreateLeavesOne ==
  [][\A r \in Slots :
       (reqs[r].op = "create" /\ ~Quiet(reqs[r]) /\ reqs'[r].pc = "done")
         => Cardinality(ActiveIn(handoffs', TupleOf(reqs[r]))) = 1]_vars

\* a second create on the tuple has answered 200 and one handoff is active
C1_Witness ==
  \E r \in Slots :
    /\ reqs[r].op = "create" /\ reqs[r].pc = "done" /\ reqs[r].resp.status = 200
    /\ Cardinality(ActiveIn(handoffs, TupleOf(reqs[r]))) = 1

\* C2: in every reachable state, whatever the interleaving of the requests,
\* the store holds at most one non-resolved handoff per tuple.
C2_AtMostOneActive == \A tu \in Tuples : Cardinality(ActiveIn(handoffs, tu)) <= 1

\* C3: every cache entry refers to a handoff whose stored status is not
\* resolved; read here in the states where no handler is in flight, which are
\* among the reachable states the claim speaks of.
C3_CacheSubsetOfActive ==
  AllQuiet =>
    \A k \in DOMAIN cache :
      /\ cache[k].id \in Ids
      /\ handoffs[cache[k].id].status # "resolved"

\* C4: after a successful resolve of a handoff that had been assigned, the
\* cache holds it neither under its user thread nor under its agent thread.
C4_ResolvedAbsentUnderBothKeys ==
  \A r \in Slots :
    (/\ reqs[r].op = "resolve" /\ reqs[r].pc = "done" /\ reqs[r].resp.status = 200
     /\ reqs[r].resp.handoff.agentThreadId # 0)
      => /\ ~CacheHit(reqs[r].bot, reqs[r].resp.handoff.userThreadId)
         /\ ~CacheHit(reqs[r].bot, reqs[r].resp.handoff.agentThreadId)

\* C5: a stored status changes only along pending -> assigned, pending ->
\* resolved, assigned -> resolved, and a resolved handoff never changes again.
C5_ResolvedIsFinal ==
  [][\A i \in Ids :
       /\ handoffs'[i].status # handoffs[i].status
            => <<handoffs[i].status, handoffs'[i].status>> \in LegalTransitions
       /\ handoffs[i].status = "resolved" => handoffs'[i] = handoffs[i]]_vars

\* C6: of the assign requests for one handoff at most one persists its
\* assignment and succeeds.
C6_OneAssignWins ==
  \A r1, r2 \in Slots :
    (/\ r1 # r2
     /\ reqs[r1].op = "assign" /\ reqs[r2].op = "assign"
     /\ reqs[r1].id = reqs[r2].id /\ reqs[r1].bot = reqs[r2].bot
     /\ reqs[r1].pc = "done" /\ reqs[r1].resp.status = 200)
      => ~(reqs[r2].pc = "done" /\ reqs[r2].resp.status = 200)

Settled == {"assigned", "resolved"}

\* the assign handler about to load, or having loaded, a handoff that is not pending
AssignOnSettled(q) ==
  /\ q.op = "assign"
  /\ \/ q.pc = "a_load" /\ StoredHandoff(q.bot, q.id).status \in Settled
     \/ q.pc \in {"a_conv", "a_update"} /\ q.handoff.status \in Settled

\* C7: the assign handler on a handoff whose stored status is assigned or
\* resolved ends with IllegalTransition, and none of its steps changes the
\* store, the cache, the agent's presence or the fanout stream.
C7_AssignOnSettledFails ==
  [][\A r \in Slots :
       (AssignOnSettled(reqs[r]) /\ Moves(r))
         => /\ UNCHANGED <<handoffs, cache, agentOnline, timeouts, fanout, lost, callbacks, comments>>
            /\ reqs'[r].pc \in {"a_conv", "done"}
            /\ reqs'[r].pc = "done" => reqs'[r].resp.error = "IllegalTransition"]_vars

C7_Witness ==
  \E r \in Slots :
    /\ reqs[r].op = "assign" /\ reqs[r].pc = "done"
    /\ reqs[r].handoff.status \in Settled
    /\ reqs[r].resp.error = "IllegalTransition"

\* the resolve handler about to load, or having loaded, a resolved handoff
ResolveOnResolved(q) ==
  /\ q.op = "resolve"
  /\ \/ q.pc = "r_load" /\ StoredHandoff(q.bot, q.id).status = "resolved"
     \/ q.pc = "r_update" /\ q.handoff.status = "resolved"

\* C8: the resolve handler on a handoff whose stored status is resolved ends
\* with IllegalTransition at once: resolvedAt, the cache, the agent's session
\* and the fanout stream stay as they are.
C8_ResolveOnResolvedFails ==
  [][\A r \in Slots :
       (ResolveOnResolved(reqs[r]) /\ Moves(r))
         => /\ UNCHANGED <<handoffs, cache, agentOnline, timeouts, fanout, lost, callbacks, comments>>
            /\ reqs'[r].pc = "done"
            /\ reqs'[r].resp.error = "IllegalTransition"]_vars

C8_Witness ==
  \E r \in Slots :
    /\ reqs[r].op = "resolve" /\ reqs[r].pc = "done"
    /\ reqs[r].handoff.status = "resolved"
    /\ reqs[r].resp.error = "IllegalTransition"
    /\ handoffs[reqs[r].id].resolvedAt # reqs[r].at

\* C9 as stated: a create call that finds a non-terminal handoff for its tuple
\* answers with a success that carries that handoff.
C9_DuplicateReturnsExisting ==
  [][\A r \in Slots :
       (/\ reqs[r].op = "create" /\ reqs[r].pc = "c_query"
        /\ ActiveIn(handoffs, TupleOf(reqs[r])) # {}
        /\ Moves(r))
         => /\ reqs'[r].resp.status = 200
            /\ \E i \in ActiveIn(handoffs, TupleOf(reqs[r])) :
                 reqs'[r].resp.handoff = handoffs[i]]_vars

\* C9 amended: a create call that finds a non-terminal handoff for its tuple
\* answers with the success status 200 and no error, and the answer carries no
\* handoff record.
C9_DuplicateAnswersOk ==
  [][\A r \in Slots :
       (/\ reqs[r].op = "create" /\ reqs[r].pc = "c_query"
        /\ ActiveIn(handoffs, TupleOf(reqs[r])) # {}
        /\ Moves(r))
         => /\ reqs'[r].pc = "done"
            /\ reqs'[r].resp.status = 200
            /\ reqs'[r].resp.error = "none"
            /\ reqs'[r].resp.handoff = NoHandoff]_vars

\* a create has answered 200 without a record while the handoff it found is active
C9_Witness ==
  \E r \in Slots :
    /\ reqs[r].op = "create" /\ reqs[r].pc = "done"
    /\ reqs[r].handoff.id \in ActiveIn(handoffs, TupleOf(reqs[r]))
    /\ reqs[r].resp = [NoResp EXCEPT !.status = 200]

\* C10: a create call whose query runs while the tuple has a non-terminal
\* handoff ends there: no insert, no cache write, no delivery to the user's
\* conversation, no fanout event.
C10_DuplicateCreateIsNoOp ==
  [][\A r \in Slots :
       (/\ reqs[r].op = "create" /\ reqs[r].pc = "c_query"
        /\ ActiveIn(handoffs, TupleOf(reqs[r])) # {}
        /\ Moves(r))
         => /\ reqs'[r].pc = "done"
            /\ UNCHANGED <<handoffs, cache, events, fanout, lost, callbacks, comments>>]_vars

C10_Witness ==
  \E r \in Slots :
    /\ reqs[r].op = "create" /\ reqs[r].pc = "done" /\ reqs[r].resp.status = 200
    /\ reqs[r].handoff # NoHandoff
    /\ Len(handoffs) = 1 /\ Len(events) = 1

\* --------------------------------------------------------- presence claims
OperatorKeys == Tenants \X Operators

\* the pending timers that were armed for operator a of bot b
LiveTimers(b, a) ==
  (IF timeouts[a].armed /\ timeouts[a].bot = b THEN 1 ELSE 0)
  + Cardinality({i \in 1..Len(lost) : lost[i].bot = b /\ lost[i].agent = a})

\* request r is the only request of the run, an online call that was answered
OnlyOnline(r, b, a) ==
  /\ nreq = 1
  /\ reqs[r].op = "online" /\ reqs[r].pc = "done"
  /\ reqs[r].bot = b /\ reqs[r].agent = a

\* the step in which the handler in slot r leaves registerTimeout and answers
Rearms(r) == reqs[r].pc = "h_timer" /\ reqs'[r].pc = "done"

\* the step in which an expiry callback resumes after its re-read and ends
CallbackEnds == Len(callbacks') < Len(callbacks)

\* C11: after one setOnline and nothing else, once the session timer has
\* expired and its callback has run, the operator's stored status is offline
\* and the callback's event is the one update event that followed the call.
C11_ExpiryTurnsOffline ==
  \A k \in OperatorKeys : \A r \in Slots :
    (OnlyOnline(r, k[1], k[2]) /\ LiveTimers(k[1], k[2]) = 0 /\ callbacks = <<>>)
      => /\ ~agentOnline[k]
         /\ Len(fanout) = 2
         /\ fanout[2].resource = "agent" /\ fanout[2].type = "update"
         /\ fanout[2].agent = k[2] /\ ~fanout[2].online

\* C12: when a handler rearms the session timer of an operator whose timer
\* is still pending, the superseded timer is no longer pending afterwards
\* (only the new one is, so the superseded one can never expire), and the
\* stored status of an operator goes from online to offline in no step but
\* the store write of an offline call for that operator or the end of the
\* callback of a timer that did expire.
C12_SupersededTimerIsDead ==
  [][/\ \A r \in Slots :
          (Rearms(r) /\ LiveTimers(reqs[r].bot, reqs[r].agent) = 1)
            => /\ timeouts'[reqs[r].agent] = [armed |-> TRUE, bot |-> reqs[r].bot]
               /\ \A i \in 1..Len(lost') : lost'[i].agent # reqs[r].agent
     /\ \A k \in OperatorKeys :
          (agentOnline[k] /\ ~agentOnline'[k])
            => \/ CallbackEnds
               \/ \E r \in Slots : /\ reqs[r].op = "offline" /\ reqs[r].pc = "h_set"
                                   /\ <<reqs[r].bot, reqs[r].agent>> = k
                                   /\ Moves(r)]_vars

\* an online call and a comment call of the same operator overlapped, both
\* were answered, and no timer has expired since
C12_Witness ==
  /\ nreq = 2
  /\ reqs[1].op = "online" /\ reqs[1].pc = "done"
  /\ reqs[2].op = "comment" /\ reqs[2].pc = "done" /\ reqs[2].resp.status = 201
  /\ reqs[1].bot = reqs[2].bot /\ reqs[1].agent = reqs[2].agent
  /\ agentOnline[<<reqs[1].bot, reqs[1].agent>>]
  /\ LiveTimers(reqs[1].bot, reqs[1].agent) = 1
  /\ callbacks = <<>>
  /\ Len(fanout) = 1

\* C13: an operator never has more than one pending session timer; when an
\* online call is answered (also one that overlapped another online call for
\* the same operator) the operator has exactly one; and every timer that
\* expires leaves the pending timers by one and emits exactly one event.
C13_OneLiveTimer ==
  [][/\ \A k \in OperatorKeys : LiveTimers(k[1], k[2])' <= 1
     /\ \A r \in Slots :
          (reqs[r].op = "online" /\ Rearms(r)) => LiveTimers(reqs[r].bot, reqs[r].agent)' = 1
     /\ Len(callbacks') > Len(callbacks) => Cardinality(PendingTimers') = Cardinality(PendingTimers) - 1
     /\ CallbackEnds => Len(fanout') = Len(fanout) + 1]_vars

\* two online calls of one operator overlapped and both were answered
C13_Witness ==
  /\ nreq = 2
  /\ reqs[1].op = "online" /\ reqs[1].pc = "done"
  /\ reqs[2].op = "online" /\ reqs[2].pc = "done"
  /\ reqs[1].bot = reqs[2].bot /\ reqs[1].agent = reqs[2].agent
  /\ LiveTimers(reqs[1].bot, reqs[1].agent) = 1
  /\ callbacks = <<>>
  /\ Len(fanout) = 2

\* C14: in every state where no request is in flight and no expiry callback
\* is running, an operator's stored online flag is true exactly when one
\* pending session timer is registered for that operator.
C14_OnlineIffLiveTimer ==
  (AllQuiet /\ callbacks = <<>>)
    => \A k \in OperatorKeys : agentOnline[k] <=> LiveTimers(k[1], k[2]) = 1

\* the step in which callback i resumes and ends
Ends(i) == CallbackEnds /\ callbacks' = Without(callbacks, i)

LastEvent(f) == f[Len(f)]

\* C15: when an expiry callback resumes after its re-read: if the operator
\* is still online it writes the status offline and emits one agent update
\* event saying so; if the operator is no longer online it changes nothing
\* and emits no event.
C15_ExpiryCallbackEffect ==
  [][CallbackEnds =>
       \E i \in 1..Len(callbacks) :
         LET k == <<callbacks[i].bot, callbacks[i].agent>> IN
         /\ Ends(i)
         /\ IF agentOnline[k]
            THEN /\ agentOnline' = [agentOnline EXCEPT ![k] = FALSE]
                 /\ Len(fanout') = Len(fanout) + 1
                 /\ LastEvent(fanout').resource = "agent"
                 /\ LastEvent(fanout').agent = k[2]
                 /\ ~LastEvent(fanout').online
            ELSE /\ agentOnline' = agentOnline
                 /\ fanout' = fanout]_vars

\* C16: an expiry callback whose timer handle was cleared (by a rearm or by
\* an offline call) while the callback was suspended at its re-read ends
\* without a status change and without a fanout event.
C16_ClearedCallbackIsSilent ==
  [][\A i \in 1..Len(callbacks) :
       (callbacks[i].cleared /\ Ends(i))
         => (fanout' = fanout /\ agentOnline' = agentOnline)]_vars

\* the presence of the operators of the bots other than b is left as it is
OtherTenantsUntouched(b) ==
  \A k \in OperatorKeys :
    k[1] # b => /\ LiveTimers(k[1], k[2])' = LiveTimers(k[1], k[2])
                /\ agentOnline'[k] = agentOnline[k]

\* C17: a step of a request on bot b, and the expiry of a timer armed for
\* bot b, neither cancels, rearms or replaces the session timer of an
\* operator of another bot nor changes that operator's stored status.
C17_TenantIsolation ==
  [][/\ \A r \in Slots : Moves(r) => OtherTenantsUntouched(reqs'[r].bot)
     /\ \A i \in 1..Len(callbacks) : Ends(i) => OtherTenantsUntouched(callbacks[i].bot)
     /\ Len(callbacks') > Len(callbacks)
          => OtherTenantsUntouched(callbacks'[Len(callbacks')].bot)]_vars

\* no subscriber of a bot other than b is handed the event
OnlyFor(b, e) == \A sub \in Tenants \ {b} : ~Receives(sub, e)

\* C18: an event published by a request on bot b, or by the expiry callback
\* of a timer armed for bot b, is handed to subscribers of bot b only.
C18_FanoutStaysInTenant ==
  [][/\ \A r \in Slots :
          (Moves(r) /\ Len(fanout') > Len(fanout)) => OnlyFor(reqs'[r].bot, LastEvent(fanout'))
     /\ \A i \in 1..Len(callbacks) :
          Ends(i) => OnlyFor(callbacks[i].bot, LastEvent(fanout'))]_vars

\* ---------------------------------------------------------- comment claims
\* the step in which the comment call in slot r is answered 201
CommentAnswered(r) ==
  /\ reqs[r].op = "comment" /\ ~Quiet(reqs[r])
  /\ reqs'[r].pc = "done" /\ reqs'[r].resp.status = 201

\* C19: a comment call that is answered 201 has published one fanout update
\* event for its handoff by the time it answers.
C19_CommentEmitsUpdate ==
  [][\A r \in Slots :
       CommentAnswered(r)
         => /\ Len(fanout') = Len(fanout) + 1
            /\ LastEvent(fanout').resource = "handoff"
            /\ LastEvent(fanout').type = "update"
            /\ LastEvent(fanout').handoff.id = reqs[r].id]_vars

\* C20: while the handoff id a comment call names is not in the store, no
\* step of the call persists a comment or touches the operator's status or
\* session timer, and if the call ends it ends with a reported failure.
C20_CommentOnMissingHandoffFails ==
  [][\A r \in Slots :
       (reqs'[r].op = "comment" /\ Moves(r) /\ reqs'[r].id \notin Ids)
         => /\ comments' = comments
            /\ agentOnline' = agentOnline
            /\ timeouts' = timeouts
            /\ reqs'[r].pc = "done" => reqs'[r].resp.status >= 400]_vars

\* ------------------------------------------------------------ error claims
\* C21: a request that has ended has been answered: none ends with no
\* response sent to its caller.
C21_FailureIsReported ==
  \A r \in Slots : reqs[r].pc = "done" => reqs[r].resp.status # 0

\* ------------------------------------------------------- handoff claims II
\* the step in which the request in slot r is answered with status code
Answered(r, op, code) ==
  /\ reqs[r].op = op /\ ~Quiet(reqs[r])
  /\ reqs'[r].pc = "done" /\ reqs'[r].resp.status = code

\* C22: with requests served one after another, when an assign by operator
\* OP on a handoff it loaded as pending is answered 200, the stored handoff
\* has status assigned, agent id OP, an agent thread id and an assignedAt,
\* and OP's stored presence is online.
C22_AssignPostcondition ==
  [][\A r \in Slots :
       (Answered(r, "assign", 200))
         => LET h == handoffs'[reqs[r].id] IN
            /\ h.status = "assigned"
            /\ h.agentId = reqs[r].agent
            /\ h.agentThreadId # 0
            /\ h.assignedAt # 0
            /\ agentOnline'[<<reqs[r].bot, reqs[r].agent>>]
            /\ reqs'[r].resp.handoff = h]_vars

\* an assign that was answered 200
C22_Witness ==
  \E r \in Slots :
    /\ reqs[r].op = "assign" /\ reqs[r].pc = "done" /\ reqs[r].resp.status = 200
    /\ handoffs[reqs[r].id].status = "assigned"
    /\ handoffs[reqs[r].id].agentId = reqs[r].agent
    /\ agentOnline[<<reqs[r].bot, reqs[r].agent>>]

\* C23: whenever no request is in flight, every cache entry equals the
\* record the store now holds under the entry's handoff id.
C23_CacheEqualsStore ==
  AllQuiet => \A k \in DOMAIN cache : cache[k] = handoffs[cache[k].id]

\* the create call in slot r is in flight at pc and takes its step
CreateAt(r, pc) ==
  reqs[r].op = "create" /\ reqs[r].pc = pc /\ Moves(r)

\* C24: a create call whose query finds no pending or assigned handoff for
\* its tuple goes on to insert; its insert adds exactly one row, pending and
\* without agent, for its tuple; the row is cached under the user thread
\* key; the call is answered 201 in the step that publishes one event of
\* resource handoff and type create carrying the row; and no other step of
\* the call writes the store or the fanout.
C24_CreateEffects ==
  [][\A r \in Slots :
       LET q == reqs[r] IN
       /\ (CreateAt(r, "c_query")
             /\ ActiveIn(handoffs, TupleOf(q)) = {}) => reqs'[r].pc = "c_insert"
       /\ CreateAt(r, "c_insert")
            => /\ Len(handoffs') = Len(handoffs) + 1
               /\ SubSeq(handoffs', 1, Len(handoffs)) = handoffs
               /\ LET h == handoffs'[Len(handoffs')] IN
                  /\ h.status = "pending" /\ h.agentId = "none"
                  /\ <<h.botId, h.userId, h.userThreadId, h.userChannel>> = TupleOf(q)
                  /\ reqs'[r].handoff = h
       /\ CreateAt(r, "c_cache")
            => /\ <<q.bot, q.thread>> \in DOMAIN cache'
               /\ cache'[<<q.bot, q.thread>>] = q.handoff
       /\ CreateAt(r, "c_reply")
            => /\ Len(fanout') = Len(fanout) + 1
               /\ LastEvent(fanout').bot = q.bot
               /\ LastEvent(fanout').resource = "handoff"
               /\ LastEvent(fanout').type = "create"
               /\ LastEvent(fanout').handoff = q.handoff
               /\ reqs'[r].pc = "done"
               /\ reqs'[r].resp.status = 201 /\ reqs'[r].resp.handoff = q.handoff
       /\ (q.op = "create" /\ ~Quiet(q) /\ Moves(r))
            => /\ q.pc # "c_insert" => handoffs' = handoffs
               /\ q.pc # "c_reply" => (fanout' = fanout /\ reqs'[r].resp.status # 201)]_vars

\* a create was answered 201; its row is in the store and in the cache under
\* the user thread key, and the fanout holds the one create event for it
C24_Witness ==
  \E r \in Slots :
    /\ reqs[r].op = "create" /\ reqs[r].pc = "done" /\ reqs[r].resp.status = 201
    /\ reqs[r].handoff.id \in Ids
    /\ handoffs[reqs[r].handoff.id] = reqs[r].handoff
    /\ CacheHit(reqs[r].bot, reqs[r].thread)
    /\ cache[<<reqs[r].bot, reqs[r].thread>>] = reqs[r].handoff
    /\ Cardinality({i \in 1..Len(fanout) : fanout[i].type = "create"
                                           /\ fanout[i].handoff = reqs[r].handoff}) = 1

\* the pending or assigned handoffs of the bot, user and thread of tuple tu
\* that came from another channel
ActiveOnOtherChannel(hs, tu) ==
  {i \in 1..Len(hs) : /\ <<hs[i].botId, hs[i].userId, hs[i].userThreadId>> = <<tu[1], tu[2], tu[3]>>
                      /\ hs[i].userChannel # tu[4]
                      /\ hs[i].status \in {"pending", "assigned"}}

\* C25: a create call whose query runs while the pending or assigned
\* handoffs of its bot, user and thread all came from another channel goes
\* on to insert a new handoff.
C25_DuplicateCheckOnFourFields ==
  [][\A r \in Slots :
       (/\ reqs[r].op = "create" /\ reqs[r].pc \in {"c_query", "e_query"} /\ Moves(r)
        /\ ActiveIn(handoffs, TupleOf(reqs[r])) = {}
        /\ ActiveOnOtherChannel(handoffs, TupleOf(reqs[r])) # {})
         => reqs'[r].pc \in {"c_insert", "e_insert"}]_vars

\* the pcs of a handler that has written its handoff to the store and has
\* not published yet
Written ==
  {"c_cache", "c_reply", "a_cache", "a_online", "a_timer", "a_events",
   "r_expire", "r_online", "r_timer"}

\* C26: a create, assign or resolve call that has written its handoff to
\* the store ends only in a step that publishes one fanout event for that
\* handoff.
C26_PersistedMutationIsPublished ==
  [][\A r \in Slots :
       (reqs[r].pc \in Written /\ reqs'[r].pc = "done")
         => /\ Len(fanout') = Len(fanout) + 1
            /\ LastEvent(fanout').resource = "handoff"
            /\ LastEvent(fanout').handoff.id = reqs[r].handoff.id]_vars

\* C27: the step in which an assign call ends with IllegalTransition opens
\* no operator conversation (no other step of assign opens one).
C27_IllegalAssignOpensNoConversation ==
  [][\A r \in Slots :
       (/\ reqs[r].op = "assign" /\ ~Quiet(reqs[r])
        /\ reqs'[r].pc = "done" /\ reqs'[r].resp.error = "IllegalTransition")
         => (convos' = convos /\ reqs'[r].agentThreadId = 0)]_vars

\* ------------------------------------------------------ presence claims II
\* the step in which an assign, resolve or comment call is answered as a success
ActionAnswered(r) ==
  /\ reqs[r].op \in {"assign", "resolve", "comment"} /\ ~Quiet(reqs[r])
  /\ reqs'[r].pc = "done" /\ reqs'[r].resp.status \in {200, 201}

\* C28: when an assign, resolve or comment call of an operator is answered
\* as a success, the operator's stored presence is online and exactly one
\* pending session timer is registered for the operator.
C28_ActionLeavesOnlineWithTimer ==
  [][\A r \in Slots :
       ActionAnswered(r)
         => /\ agentOnline'[<<reqs[r].bot, reqs[r].agent>>]
            /\ LiveTimers(reqs[r].bot, reqs[r].agent)' = 1]_vars

\* C29: when the online check of an assign or resolve call finds the
\* operator's stored presence offline, the call ends in that step with a 422
\* validation error, and the store, the cache, the presence flags, the timer
\* table, the fanout, the deliveries and the conversations are unchanged.
C29_OfflineOperatorIsRejected ==
  [][\A r \in Slots :
       (/\ reqs[r].op \in {"assign", "resolve"} /\ reqs[r].pc = "mw" /\ Moves(r)
        /\ ~agentOnline[<<reqs[r].bot, reqs[r].agent>>])
         => /\ reqs'[r].pc = "done"
            /\ reqs'[r].resp.status = 422 /\ reqs'[r].resp.error = "AgentOffline"
            /\ UNCHANGED <<handoffs, cache, agentOnline, timeouts, fanout, events, convos>>]_vars

\* an assign or resolve call was turned away by the online check
C29_Witness ==
  \E r \in Slots :
    /\ reqs[r].op \in {"assign", "resolve"} /\ reqs[r].pc = "done"
    /\ reqs[r].resp.error = "AgentOffline"
    /\ ~agentOnline[<<reqs[r].bot, reqs[r].agent>>]
    /\ reqs[r].id \in Ids /\ handoffs[reqs[r].id].status = "pending"

\* C30: the step of a comment call that persists its comment is taken only
\* while the commenting operator's stored presence is online.
C30_CommentOnlyWhenOnline ==
  [][\A r \in Slots :
       (reqs[r].op = "comment" /\ Moves(r) /\ comments' # comments)
         => agentOnline[<<reqs[r].bot, reqs[r].agent>>]]_vars

\* ------------------------------------------------------ failed resolve
\* the step in which a resolve call reports a failure to its caller
ResolveFails(r) ==
  /\ reqs[r].op = "resolve" /\ ~Quiet(reqs[r])
  /\ reqs'[r].pc = "done" /\ reqs'[r].resp.status >= 400

\* the stored handoff carries the resolution written by the call q: the
\* payload's resolvedAt is the call's own new Date()
ResolvedBy(h, q) == h.status = "resolved" /\ q.at > 0 /\ h.resolvedAt = q.at

\* C31: when a resolve call reports a failure to its caller, the stored
\* handoff does not carry that call's resolution: its status and resolvedAt
\* are not the ones the failed call wrote, also when the failure comes from
\* the presence refresh after the store update.
C31_FailedResolveChangesNothing ==
  [][\A r \in Slots :
       (ResolveFails(r) /\ reqs[r].id \in Ids)
         => ~ResolvedBy(handoffs'[reqs[r].id], reqs[r])]_vars

\* -------------------------------------------------------- chain claims
\* the steps recorded on the event for the handler at position k
StepsOf(k) == {n \in 1..Len(chain.steps) : chain.steps[n][1] = k}

\* the handler at position k called back with swallow = true before its
\* timer fired: its callback won the race
SwallowedInTime(k) ==
  k \in 1..Len(chain.invoked) /\ chain.result[k] = "swallowed"

\* C32: the handlers are invoked in registration order, each at most once,
\* the next one only after the race of the one before has settled; and when
\* a handler has called back with swallow = true before its timer fired, no
\* later handler is invoked and, once the run has left the await, the step
\* 'swallowed' is recorded for that handler.
C32_OrderedAndSwallowStops ==
  /\ \A n \in 1..Len(chain.invoked) : chain.invoked[n] = n
  /\ \A n \in 1..(Len(chain.invoked) - 1) : chain.result[n] # Pending
  /\ \A k \in Handlers :
       SwallowedInTime(k)
         => /\ Len(chain.invoked) = k
            /\ chain.pc # "await" => \E n \in StepsOf(k) : chain.steps[n][2] = "swallowed"

\* the step in which the run leaves the await of the race
Resumes == chain.pc = "await" /\ (chain'.pc # "await" \/ chain'.i # chain.i)

\* the run has gone on to the handler after position k, or has ended after
\* the last one
GoesOnAfter(k) ==
  IF k < Len(chain.stack)
  THEN chain'.pc = "await" /\ chain'.invoked = Append(chain.invoked, k + 1)
  ELSE chain'.pc = "finished" /\ chain'.invoked = chain.invoked

\* the handler at position k calls back after its timer has fired
LateCallBack(k) ==
  k \in chain'.calledBack \ chain.calledBack /\ chain.timedOut[k]

\* C33: a run in which no handler reports an error reaches its end, also
\* when handlers never call back; when the run resumes from a race that the
\* timer won, it records 'timedOut' for that handler and goes on to the
\* next one; and a callback that arrives after its timer has fired, whatever
\* it reports, records no step, invokes nothing and does not end the run.
C33_TimeoutsKeepTheChainGoing ==
  /\ [][/\ (Resumes /\ chain.result[chain.i] = Undefined)
             => /\ chain'.steps = Append(chain.steps, <<chain.i, "timedOut">>)
                /\ GoesOnAfter(chain.i)
         /\ \A k \in Handlers :
              LateCallBack(k)
                => /\ chain'.steps = chain.steps
                   /\ chain'.invoked = chain.invoked
                   /\ chain'.pc = chain.pc /\ chain'.i = chain.i]_vars
  /\ (chain.pc = "await") ~> (chain.pc \in {"finished", "rejected"})

\* a run has ended in which a handler timed out, called back late with
\* swallow = true, and the handler after it still got its step
C33_Witness ==
  /\ chain.pc = "finished"
  /\ \E k \in 1..(Len(chain.stack) - 1) :
       /\ chain.stack[k] = "swallowed" /\ k \in chain.calledBack
       /\ \E n \in StepsOf(k) : chain.steps[n][2] = "timedOut"
       /\ StepsOf(k + 1) # {}
====
